---- MODULE Spec2Model ----
(***************************************************************************)
(* RobleApiClient (src/src/index.tsx): the token store, the request        *)
(* pipeline _makeRequest with its single refresh-and-retry on 401, and the *)
(* auth and data operations that call it.                                  *)
(*                                                                         *)
(* Every public operation is an async function.  It runs synchronously up  *)
(* to its first await (the send of a request), and each later step is the  *)
(* continuation run when the awaited network response arrives.  Several    *)
(* operations may be pending at once; their continuations interleave.      *)
(*                                                                         *)
(* Tokens are non-empty strings, so JavaScript truthiness of a token is    *)
(* the same as its being non-null.                                         *)
(*                                                                         *)
(* Spec drives the client with every operation and every response;         *)
(* FairSpec adds that each request in flight is eventually answered;       *)
(* SpecSession drives it with logins and data calls only; SpecPure applies *)
(* create, read, update and the constructor to enumerated inputs.          *)
(***************************************************************************)
EXTENDS Integers, Sequences, FiniteSets, TLC

\* Number of operations the caller may have pending at the same time.
MaxCalls == 2

Calls == 1..MaxCalls

\* null / undefined
Null == "null"

\* Token values a backend response or setTokens may carry.
Tokens == {"t1", "t2"}
MaybeToken == Tokens \cup {Null}

\* Values assignable to onTokenUpdate (Null: no observer assigned).
Observers == {"o1", "o2"}

VARIABLES
    accessToken,    \* this.accessToken
    refreshToken,   \* this.refreshToken
    onTokenUpdate,  \* this.onTokenUpdate
    config,         \* this.config (authHeaders, dataHeaders)
    calls,          \* per pending call: the position inside its async function
    started,        \* the public operation invoked by the last step
    recv,           \* the network response consumed by the last step
    sent,           \* the request handed to the transport by the last step
    obsEvents,      \* the observer invocations made by the last step
    writes,         \* the assignments to the two token fields made by the last step
    out,            \* the settled promise (result or rejection) of the last step
    pure            \* the last application of a response or argument mapping

vars == <<accessToken, refreshToken, onTokenUpdate, config, calls,
          started, recv, sent, obsEvents, writes, out, pure>>

-----------------------------------------------------------------------------
(* Operations, their kind, endpoint and isAuthRequest flag                  *)

AuthOps == {"register", "refreshTokenManual", "login", "logout"}
\* The data operation: a call of _makeRequest with kind 'database' and the
\* default isAuthRequest = false, whose result is returned unchanged.
DataOps == {"getTableData"}
Ops == AuthOps \cup DataOps

OpKind(op) == IF op \in AuthOps THEN "auth" ELSE "database"

OpEndpoint(op) ==
    CASE op = "register" -> "signup-direct"
      [] op = "refreshTokenManual" -> "refresh-token"
      [] op = "login" -> "login"
      [] op = "logout" -> "logout"
      [] op = "getTableData" -> "table-data"

IsAuthRequest(op) == op \in AuthOps

\* pathBuilder default: /auth/{codeUrl}/{endpoint} or /database/{codeUrl}/{endpoint}
buildPath(kind, endpoint) == <<kind, "codeUrl", endpoint>>

-----------------------------------------------------------------------------
(* Headers                                                                  *)

NoHeaders == [k \in {} |-> ""]

\* Header sets a configuration may give as authHeaders / dataHeaders.
PlainHeaders == [k \in {"x-app"} |-> "roble-mobile"]
OwnAuthHeaders ==
    [k \in {"x-app", "Authorization"} |->
        IF k = "x-app" THEN "roble-mobile" ELSE "Basic cfg"]

\* The configuration the client is constructed with: the auth headers bring
\* an Authorization value of their own, the data headers bring none.
Configs ==
    { [authHeaders |-> OwnAuthHeaders, dataHeaders |-> PlainHeaders] }

Bearer(tok) == "Bearer " \o tok

\* { 'Content-Type': 'application/json', ...base, ...extra }
mergeHeaders(base, extra) ==
    [k \in {"Content-Type"} \cup DOMAIN base \cup DOMAIN extra |->
        IF k \in DOMAIN extra THEN extra[k]
        ELSE IF k \in DOMAIN base THEN base[k]
        ELSE "application/json"]

\* A request interceptor that leaves an Authorization header already there.
InterceptorKeepsOwn(headers, tok) ==
    [k \in DOMAIN headers \cup {"Content-Type"}
           \cup (IF tok # Null THEN {"Authorization"} ELSE {}) |->
        IF k = "Content-Type" THEN "application/json"
        ELSE IF k \in DOMAIN headers THEN headers[k]
        ELSE Bearer(tok)]

\* The request interceptor: Content-Type always, Authorization if a token is stored.
Interceptor(headers, tok) ==
    [k \in DOMAIN headers \cup {"Content-Type"}
           \cup (IF tok # Null THEN {"Authorization"} ELSE {}) |->
        IF k = "Content-Type" THEN "application/json"
        ELSE IF k = "Authorization" /\ tok # Null THEN Bearer(tok)
        ELSE headers[k]]

-----------------------------------------------------------------------------
(* Responses                                                                *)

\* res.data: null, or an object whose fields may be missing (Null).
NullBody ==
    [isObj |-> FALSE, message |-> Null, error |-> Null,
     accessToken |-> Null, refreshToken |-> Null]

Obj(message, error, at, rt) ==
    [isObj |-> TRUE, message |-> message, error |-> error,
     accessToken |-> at, refreshToken |-> rt]

\* Bodies of 2xx responses: null, with one token, with both tokens.
OkBodies ==
    {NullBody, Obj(Null, Null, "t1", Null), Obj(Null, Null, Null, "t1"),
     Obj(Null, Null, "t2", "t1")}

\* Bodies of non-2xx responses: null, with message, with error, with both.
ErrBodies ==
    {NullBody, Obj("msg", Null, Null, Null),
     Obj(Null, "err", Null, Null), Obj("msg", "err", Null, Null)}

Bodies == OkBodies \cup ErrBodies

\* The message of the error a failed transport (DNS, timeout, reset) rejects with.
NetMsg == "Network Error"

\* What awaiting http.request yields: a response of any status
\* (validateStatus: () => true), or a rejection by the transport (net).
Responses ==
    [net : {FALSE}, status : {200}, body : OkBodies]
    \cup [net : {FALSE}, status : {401}, body : ErrBodies]
    \cup [net : {FALSE}, status : {300}, body : {NullBody}]
    \cup [net : {FALSE}, status : {500}, body : {Obj("msg", Null, Null, Null)}]
    \cup {[net |-> TRUE, status |-> 0, body |-> NullBody]}

\* res.status >= 200 && res.status < 300
Is2xx(status) == status >= 200 /\ status < 300

\* (res.data && (res.data.message || res.data.error)) || `HTTP ${res.status}`
MsgOf(res) ==
    IF res.body.isObj /\ res.body.message # Null THEN res.body.message
    ELSE IF res.body.isObj /\ res.body.error # Null THEN res.body.error
    ELSE "HTTP " \o ToString(res.status)

-----------------------------------------------------------------------------
(* Errors                                                                   *)

NoSessionMsg == "No hay token activo para cerrar sesion."
NoRefreshMsg == "No hay refresh token disponible."
InvalidRefreshMsg == "Respuesta invalida al refrescar token."

NoExc == [type |-> "none", wrapped |-> FALSE, text |-> ""]

\* new RobleApiException(message)
RobleApiException(text) ==
    [type |-> "RobleApiException", wrapped |-> FALSE, text |-> text]

\* The error http.request rejects with on a transport failure.
TransportError == [type |-> "AxiosError", wrapped |-> FALSE, text |-> NetMsg]

\* new RobleApiException(`Token expirado y no se pudo refrescar: ${e?.message ?? e}`)
\* wrapped stands for the prefix, text for the message of the error caught.
RefreshFailure(e) ==
    [type |-> "RobleApiException", wrapped |-> TRUE, text |-> e.text]

-----------------------------------------------------------------------------
(* The 401 rule of _makeRequest                                             *)

\* The rule without its isAuthRequest test.
ShouldRefreshAnyRequest(status, isAuthRequest, rt) ==
    status = 401 /\ rt # Null

\* The rule applied to every failing status.
ShouldRefreshAnyFailure(status, isAuthRequest, rt) ==
    ~isAuthRequest /\ rt # Null

\* The rule with a guard that joins a refresh already in flight.
ShouldRefreshCoalesced(status, isAuthRequest, rt) ==
    /\ status = 401 /\ ~isAuthRequest /\ rt # Null
    /\ \A c \in Calls : calls[c].pc # "awaitRefresh"

\* res.status === 401 && !isAuthRequest && this.refreshToken
ShouldRefresh(status, isAuthRequest, rt) ==
    status = 401 /\ ~isAuthRequest /\ rt # Null

\* The login test asking for the access token alone.
HasBothTokensLoose(data) == data.isObj /\ data.accessToken # Null

\* data?.accessToken && data?.refreshToken
HasBothTokens(data) ==
    data.isObj /\ data.accessToken # Null /\ data.refreshToken # Null

\* The refresh test accepting any object.
HasAccessTokenLoose(data) == data.isObj

\* data?.accessToken
HasAccessToken(data) == data.isObj /\ data.accessToken # Null

-----------------------------------------------------------------------------
(* What the responses are, told apart from what the client makes of them    *)

\* A response with a status in [200, 300).
Success2xx(res) == ~res.net /\ res.status \in 200..299

\* The refresh routine succeeds on a 2xx response carrying an access token.
RefreshSucceeded(res) ==
    Success2xx(res) /\ res.body.isObj /\ res.body.accessToken \in Tokens

\* The first response is a 401 received while a refresh token is stored.
Is401WithRefreshToken(res, rt) == ~res.net /\ res.status = 401 /\ rt \in Tokens

-----------------------------------------------------------------------------
(* State                                                                    *)

\* A call slot with no operation pending.
IdleCall ==
    [op |-> "none", pc |-> "idle", nRefresh |-> 0, nRetry |-> 0,
     trig |-> FALSE, refreshOk |-> FALSE, pending |-> {}]

NoStart == [call |-> 0, op |-> "none"]
NoRes == [net |-> FALSE, status |-> 0, body |-> NullBody]
NoRecv == [call |-> 0, op |-> "none", phase |-> "none", res |-> NoRes]
NoSend ==
    [call |-> 0, op |-> "none", phase |-> "none", path |-> <<>>,
     headers |-> NoHeaders, bodyTok |-> Null]
NoOut ==
    [call |-> 0, op |-> "none", ok |-> FALSE, value |-> NullBody, exc |-> NoExc,
     nRefresh |-> 0, nRetry |-> 0, trig |-> FALSE, refreshOk |-> FALSE]

NoPure == [fn |-> "none"]

\* The state after construction: no tokens, no observer, nothing pending.
Init ==
    /\ accessToken = Null
    /\ refreshToken = Null
    /\ onTokenUpdate = Null
    /\ config \in Configs
    /\ calls = [c \in Calls |-> IdleCall]
    /\ started = NoStart
    /\ recv = NoRecv
    /\ sent = NoSend
    /\ obsEvents = <<>>
    /\ writes = <<>>
    /\ out = NoOut
    /\ pure = NoPure

-----------------------------------------------------------------------------
(* Token store                                                              *)

\* updateAccessToken that notifies the observer only of a changed value.
UpdateAccessTokenIfChanged(token) ==
    /\ accessToken' = token
    /\ obsEvents' = IF onTokenUpdate # Null /\ token # accessToken
                    THEN <<[obs |-> onTokenUpdate, val |-> token]>>
                    ELSE <<>>

\* updateAccessToken that notifies the observer and keeps the stored token.
UpdateAccessTokenNotStored(token) ==
    /\ accessToken' = accessToken
    /\ obsEvents' = IF onTokenUpdate # Null
                    THEN <<[obs |-> onTokenUpdate, val |-> token]>>
                    ELSE <<>>

\* updateAccessToken: the write, then the observer if one is assigned.
UpdateAccessToken(token) ==
    /\ accessToken' = token
    /\ obsEvents' = IF onTokenUpdate # Null
                    THEN <<[obs |-> onTokenUpdate, val |-> token]>>
                    ELSE <<>>

\* updateRefreshToken
UpdateRefreshToken(token) == refreshToken' = token

\* No token write in this step.
TokensUntouched ==
    /\ UNCHANGED <<accessToken, refreshToken>>
    /\ obsEvents' = <<>>
    /\ writes' = <<>>

\* The body shared by setTokens and clearTokens: the access token is
\* written (and observed) first, the refresh token second.
StoreTokens(a, b) ==
    /\ UpdateAccessToken(a)
    /\ UpdateRefreshToken(b)
    /\ writes' = <<[field |-> "accessToken", val |-> a],
                   [field |-> "refreshToken", val |-> b]>>

\* setTokens({accessToken, refreshToken})
SetTokens(a, b) ==
    /\ StoreTokens(a, b)
    /\ started' = [call |-> 0, op |-> "setTokens"]
    /\ recv' = NoRecv /\ sent' = NoSend /\ out' = NoOut
    /\ UNCHANGED <<onTokenUpdate, config, calls, pure>>

\* clearTokens()
ClearTokens ==
    /\ StoreTokens(Null, Null)
    /\ started' = [call |-> 0, op |-> "clearTokens"]
    /\ recv' = NoRecv /\ sent' = NoSend /\ out' = NoOut
    /\ UNCHANGED <<onTokenUpdate, config, calls, pure>>

\* client.onTokenUpdate = o
SetObserver(o) ==
    /\ onTokenUpdate # o
    /\ onTokenUpdate' = o
    /\ started' = [call |-> 0, op |-> "onTokenUpdate"]
    /\ recv' = NoRecv /\ sent' = NoSend /\ out' = NoOut
    /\ TokensUntouched
    /\ UNCHANGED <<config, calls, pure>>

-----------------------------------------------------------------------------
(* Request pipeline                                                         *)

\* The request http.request sends: the path, the merged headers after the
\* interceptor ran with the token stored at that moment, and the refresh
\* token carried in the body (refresh-token endpoint only).
Request(c, op, phase, kind, endpoint, extraHeaders, bodyTok, tok) ==
    [call |-> c, op |-> op, phase |-> phase,
     path |-> buildPath(kind, endpoint),
     headers |-> Interceptor(
                    mergeHeaders(IF kind = "auth" THEN config.authHeaders
                                                  ELSE config.dataHeaders,
                                 extraHeaders),
                    tok),
     bodyTok |-> bodyTok]

\* The slot a new invocation takes: the first that holds no pending
\* operation.  Slots only name the invocations in flight, so which free slot
\* is taken changes nothing the client does.
FreeSlot(c) ==
    /\ calls[c].pc = "idle"
    /\ \A d \in Calls : d < c => calls[d].pc # "idle"

\* _makeRequest up to its first await: the original request is sent.
MakeRequest(c, op, bodyTok) ==
    /\ FreeSlot(c)
    /\ calls' = [calls EXCEPT ![c] = [IdleCall EXCEPT !.op = op, !.pc = "awaitOrig",
                                                  !.pending = {"orig"}]]
    /\ sent' = Request(c, op, "orig", OpKind(op), OpEndpoint(op), NoHeaders,
                       bodyTok, accessToken)
    /\ started' = [call |-> c, op |-> op]
    /\ recv' = NoRecv /\ out' = NoOut
    /\ TokensUntouched
    /\ UNCHANGED <<onTokenUpdate, config, pure>>

\* clearTokens() placed in a finally block.
LogoutClearsAlways(ok) == TRUE

\* logout: clearTokens() runs only when the awaited _makeRequest returned.
LogoutClears(ok) == ok

\* A settle in which every operation stores a token pair it is answered.
SettleStoresAny(c, rec, ok, value, exc) ==
    /\ calls' = [calls EXCEPT ![c] = IdleCall]
    /\ out' = [call |-> c, op |-> rec.op, ok |-> ok,
               value |-> IF rec.op = "logout" THEN NullBody ELSE value,
               exc |-> exc,
               nRefresh |-> rec.nRefresh, nRetry |-> rec.nRetry,
               trig |-> rec.trig, refreshOk |-> rec.refreshOk]
    /\ IF rec.op # "logout" /\ ok /\ HasBothTokens(value)
       THEN StoreTokens(value.accessToken, value.refreshToken)
       ELSE IF rec.op = "logout" /\ LogoutClears(ok)
       THEN StoreTokens(Null, Null)
       ELSE TokensUntouched

\* The promise of the public operation settles: the operation's own
\* continuation runs (login stores the pair, logout clears it) and the call
\* slot is free again.
Settle(c, rec, ok, value, exc) ==
    /\ calls' = [calls EXCEPT ![c] = IdleCall]
    /\ out' = [call |-> c, op |-> rec.op, ok |-> ok,
               value |-> IF rec.op = "logout" THEN NullBody ELSE value,
               exc |-> exc,
               nRefresh |-> rec.nRefresh, nRetry |-> rec.nRetry,
               trig |-> rec.trig, refreshOk |-> rec.refreshOk]
    /\ IF rec.op = "login" /\ ok /\ HasBothTokens(value)
       THEN StoreTokens(value.accessToken, value.refreshToken)
       ELSE IF rec.op = "logout" /\ LogoutClears(ok)
       THEN StoreTokens(Null, Null)
       ELSE TokensUntouched

-----------------------------------------------------------------------------
(* Public operations, up to their first await                               *)

\* register(name, email, password)
Register(c) ==
    /\ calls[c].pc = "idle"
    /\ MakeRequest(c, "register", Null)

\* refreshTokenManual(refreshToken)
RefreshTokenManual(c, t) ==
    /\ calls[c].pc = "idle"
    /\ MakeRequest(c, "refreshTokenManual", t)

\* login(email, password)
Login(c) ==
    /\ calls[c].pc = "idle"
    /\ MakeRequest(c, "login", Null)

\* logout() without its test of the stored access token.
LogoutUnguarded(c) == MakeRequest(c, "logout", Null)

\* logout(): rejects before any request when no access token is stored.
Logout(c) ==
    IF accessToken = Null
    THEN /\ FreeSlot(c)
         /\ started' = [call |-> c, op |-> "logout"]
         /\ out' = [NoOut EXCEPT !.call = c, !.op = "logout",
                                 !.exc = RobleApiException(NoSessionMsg)]
         /\ recv' = NoRecv /\ sent' = NoSend
         /\ TokensUntouched
         /\ UNCHANGED <<onTokenUpdate, config, calls, pure>>
    ELSE MakeRequest(c, "logout", Null)

\* getTableData(tableName)
GetTableData(c) ==
    /\ calls[c].pc = "idle"
    /\ MakeRequest(c, "getTableData", Null)

-----------------------------------------------------------------------------
(* Continuations of _makeRequest at its awaits                              *)

\* The response to the original request arrives (await at line 163).
OrigResponse(c, res) ==
    LET rec == [calls[c] EXCEPT !.trig = Is401WithRefreshToken(res, refreshToken),
                                !.pending = @ \ {"orig"}]
    IN
    /\ calls[c].pc = "awaitOrig"
    /\ recv' = [call |-> c, op |-> rec.op, phase |-> "orig", res |-> res]
    /\ started' = NoStart
    /\ UNCHANGED <<onTokenUpdate, config, pure>>
    /\ IF res.net
       THEN \* the transport's rejection leaves _makeRequest as it is
            sent' = NoSend /\ Settle(c, rec, FALSE, NullBody, TransportError)
       ELSE IF Is2xx(res.status)
       THEN sent' = NoSend /\ Settle(c, rec, TRUE, res.body, NoExc)
       ELSE IF ShouldRefresh(res.status, IsAuthRequest(rec.op), refreshToken)
       THEN \* refreshAccessToken() up to its await
            IF refreshToken = Null
            THEN sent' = NoSend
                 /\ Settle(c, rec, FALSE, NullBody,
                           RefreshFailure(RobleApiException(NoRefreshMsg)))
            ELSE /\ sent' = Request(c, rec.op, "refresh", "auth", "refresh-token",
                                    NoHeaders, refreshToken, accessToken)
                 /\ calls' = [calls EXCEPT ![c] =
                                [rec EXCEPT !.pc = "awaitRefresh",
                                            !.pending = @ \cup {"refresh"},
                                            !.nRefresh = rec.nRefresh + 1]]
                 /\ out' = NoOut
                 /\ TokensUntouched
       ELSE sent' = NoSend
            /\ Settle(c, rec, FALSE, NullBody, RobleApiException(MsgOf(res)))

\* The response to the refresh request arrives (refreshAccessToken, line 220).
\* The inner _makeRequest runs with isAuthRequest = true; whatever it or
\* refreshAccessToken throws is caught at line 174.
RefreshResponse(c, res) ==
    LET rec == [calls[c] EXCEPT !.refreshOk = RefreshSucceeded(res),
                                !.pending = @ \ {"refresh"}] IN
    /\ rec.pc = "awaitRefresh"
    /\ recv' = [call |-> c, op |-> rec.op, phase |-> "refresh", res |-> res]
    /\ started' = NoStart
    /\ UNCHANGED <<onTokenUpdate, config, pure>>
    /\ IF res.net
       THEN sent' = NoSend
            /\ Settle(c, rec, FALSE, NullBody, RefreshFailure(TransportError))
       ELSE IF ~Is2xx(res.status)
       THEN sent' = NoSend
            /\ Settle(c, rec, FALSE, NullBody,
                      RefreshFailure(RobleApiException(MsgOf(res))))
       ELSE IF ~HasAccessToken(res.body)
       THEN sent' = NoSend
            /\ Settle(c, rec, FALSE, NullBody,
                      RefreshFailure(RobleApiException(InvalidRefreshMsg)))
       ELSE \* updateAccessToken, then the retry is sent (line 172)
            /\ UpdateAccessToken(res.body.accessToken)
            /\ writes' = <<[field |-> "accessToken", val |-> res.body.accessToken]>>
            /\ UNCHANGED refreshToken
            /\ sent' = Request(c, rec.op, "retry", OpKind(rec.op), OpEndpoint(rec.op),
                               NoHeaders, Null, accessToken')
            /\ calls' = [calls EXCEPT ![c] =
                           [rec EXCEPT !.pc = "awaitRetry",
                                       !.pending = @ \cup {"retry"},
                                       !.nRetry = rec.nRetry + 1]]
            /\ out' = NoOut

\* A retry whose own 401 starts the refresh again instead of failing.
RetryResponseAgain(c, res) ==
    LET rec == [calls[c] EXCEPT !.pending = @ \ {"retry"}] IN
    /\ rec.pc = "awaitRetry"
    /\ recv' = [call |-> c, op |-> rec.op, phase |-> "retry", res |-> res]
    /\ started' = NoStart
    /\ UNCHANGED <<onTokenUpdate, config, pure>>
    /\ IF res.net
       THEN sent' = NoSend
            /\ Settle(c, rec, FALSE, NullBody, RefreshFailure(TransportError))
       ELSE IF Is2xx(res.status)
       THEN sent' = NoSend /\ Settle(c, rec, TRUE, res.body, NoExc)
       ELSE IF ShouldRefresh(res.status, IsAuthRequest(rec.op), refreshToken)
       THEN /\ sent' = Request(c, rec.op, "refresh", "auth", "refresh-token",
                               NoHeaders, refreshToken, accessToken)
            /\ calls' = [calls EXCEPT ![c] =
                           [rec EXCEPT !.pc = "awaitRefresh",
                                       !.pending = @ \cup {"refresh"},
                                       !.nRefresh = rec.nRefresh + 1]]
            /\ out' = NoOut
            /\ TokensUntouched
       ELSE sent' = NoSend
            /\ Settle(c, rec, FALSE, NullBody, RobleApiException(MsgOf(res)))

\* The response to the retry arrives (await at line 172, inside the try).
RetryResponse(c, res) ==
    LET rec == [calls[c] EXCEPT !.pending = @ \ {"retry"}] IN
    /\ rec.pc = "awaitRetry"
    /\ recv' = [call |-> c, op |-> rec.op, phase |-> "retry", res |-> res]
    /\ started' = NoStart
    /\ sent' = NoSend
    /\ UNCHANGED <<onTokenUpdate, config, pure>>
    /\ IF res.net
       THEN \* the rejection is caught by the catch around refresh and retry
            Settle(c, rec, FALSE, NullBody, RefreshFailure(TransportError))
       ELSE IF Is2xx(res.status)
       THEN Settle(c, rec, TRUE, res.body, NoExc)
       ELSE Settle(c, rec, FALSE, NullBody, RobleApiException(MsgOf(res)))

-----------------------------------------------------------------------------
Next ==
    \/ \E a, b \in Tokens : SetTokens(a, b)
    \/ ClearTokens
    \/ \E o \in Observers \cup {Null} : SetObserver(o)
    \/ \E c \in Calls : Register(c)
    \/ \E c \in Calls, t \in Tokens : RefreshTokenManual(c, t)
    \/ \E c \in Calls : Login(c)
    \/ \E c \in Calls : Logout(c)
    \/ \E c \in Calls : GetTableData(c)
    \/ \E c \in Calls, res \in Responses : OrigResponse(c, res)
    \/ \E c \in Calls, res \in Responses : RefreshResponse(c, res)
    \/ \E c \in Calls, res \in Responses : RetryResponse(c, res)

Spec == Init /\ [][Next]_vars

\* The request call c awaits is answered (the awaits at lines 163, 172, 220).
Respond(c) ==
    \E res \in Responses :
        OrigResponse(c, res) \/ RefreshResponse(c, res) \/ RetryResponse(c, res)

\* The refresh token of the one session whose access token the server lets
\* expire.
ExpiringSession == "t2"

\* What the server answers while sessions are opened and refreshed: a login
\* that opens the session (t1, t2), one that opens (t2, t1), a refresh that
\* issues t1, and a 401.
SessionResponses ==
    {[net |-> FALSE, status |-> 200, body |-> Obj(Null, Null, "t1", "t2")],
     [net |-> FALSE, status |-> 200, body |-> Obj(Null, Null, "t2", "t1")],
     [net |-> FALSE, status |-> 200, body |-> Obj(Null, Null, "t1", Null)],
     [net |-> FALSE, status |-> 401, body |-> NullBody]}

\* The client is driven by login and data calls only: no setTokens, no
\* clearTokens, no logout.
\* The original request is answered; the server answers 401 only while the
\* expiring session is the stored one, so every refresh request that leaves
\* presents that session's refresh token.
SessionOrigResponse(c, res) ==
    /\ res.status = 401 => refreshToken = ExpiringSession
    /\ OrigResponse(c, res)

SessionNext ==
    \/ \E c \in Calls : Login(c)
    \/ \E c \in Calls : GetTableData(c)
    \/ \E c \in Calls, res \in SessionResponses : SessionOrigResponse(c, res)
    \/ \E c \in Calls, res \in SessionResponses : RefreshResponse(c, res)
    \/ \E c \in Calls, res \in SessionResponses : RetryResponse(c, res)

SpecSession == Init /\ [][SessionNext]_vars

\* Every request in flight is eventually answered, by a response or by the
\* transport's rejection; the continuation then runs to its next await.
FairSpec == Spec /\ \A c \in Calls : WF_vars(Respond(c))

-----------------------------------------------------------------------------
(* JSON values of response bodies, for the operations that reshape them     *)

\* Longest list inside a response.
MaxList == 2

JNull == [type |-> "null"]
JNum(n) == [type |-> "number", n |-> n]
JStr(str) == [type |-> "string", str |-> str]
JArr(items) == [type |-> "array", items |-> items]
JObj(fields) == [type |-> "object", fields |-> fields]

NoFields == [k \in {} |-> JNull]
EmptyObj == JObj(NoFields)

\* Two table rows.
Row1 == JObj([k \in {"_id", "x"} |-> JNum(1)])
Row2 == JObj([k \in {"_id"} |-> JNum(5)])

\* What a list inside a response may hold: rows, null, a number.
Elements == {Row1, Row2, JNull, JNum(7)}

Lists == UNION {[1..n -> Elements] : n \in 0..MaxList}

\* Values of the inserted and data fields of an object response.
FieldValues ==
    {JNull, JNum(0), JStr(""), JStr("x"), EmptyObj, Row1} \cup {JArr(l) : l \in Lists}

\* An object response with any of the fields inserted and data.
ObjectsWith(keys) ==
    {JObj(f) : f \in [keys -> FieldValues]}

\* 2xx bodies handed to create and read by _makeRequest.
JsonResponses ==
    {JNull, JNum(0), JStr("x"), EmptyObj}
    \cup {JArr(l) : l \in Lists}
    \cup ObjectsWith({"inserted"}) \cup ObjectsWith({"data"})
    \cup ObjectsWith({"inserted", "data"})

\* Truthiness of a JavaScript value.
Truthy(v) ==
    CASE v.type \in {"null", "undefined"} -> FALSE
      [] v.type = "number" -> v.n # 0
      [] v.type = "string" -> v.str # ""
      [] OTHER -> TRUE

\* res?.key : undefined (Absent) unless res is an object that has the key.
Absent == [type |-> "undefined"]
Get(v, key) ==
    IF v.type = "object" /\ key \in DOMAIN v.fields THEN v.fields[key] ELSE Absent

\* v?.length as a truth value: a non-empty array (a non-empty string has a
\* length too; no inserted field of the responses above is one).
HasLength(v) == v.type = "array" /\ Len(v.items) > 0

\* { ...v }: the own properties of an object; nothing for null or a number.
Spread(v) == IF v.type = "object" THEN JObj(v.fields) ELSE EmptyObj

\* res && typeof res === 'object': objects and arrays, not null.
IsObjectLike(v) == v.type \in {"object", "array"}

InsertFailedMsg == "No se pudo insertar el registro"

\* create returning the last inserted row.
createLast(res) ==
    IF HasLength(Get(res, "inserted"))
    THEN [ok |-> TRUE,
          value |-> Spread(Get(res, "inserted").items[Len(Get(res, "inserted").items)]),
          exc |-> NoExc]
    ELSE IF IsObjectLike(res)
    THEN [ok |-> TRUE, value |-> res, exc |-> NoExc]
    ELSE [ok |-> FALSE, value |-> Absent, exc |-> RobleApiException(InsertFailedMsg)]

\* create, after _makeRequest returned res (lines 271-273).
create(res) ==
    IF HasLength(Get(res, "inserted"))
    THEN [ok |-> TRUE, value |-> Spread(Get(res, "inserted").items[1]), exc |-> NoExc]
    ELSE IF IsObjectLike(res)
    THEN [ok |-> TRUE, value |-> res, exc |-> NoExc]
    ELSE [ok |-> FALSE, value |-> Absent, exc |-> RobleApiException(InsertFailedMsg)]

\* create is applied to a 2xx body.
ApplyCreate(res) ==
    /\ pure = NoPure
    /\ pure' = [fn |-> "create", arg |-> res, result |-> create(res)]
    /\ UNCHANGED <<accessToken, refreshToken, onTokenUpdate, config, calls,
                   started, recv, sent, obsEvents, writes, out>>

\* read, after _makeRequest returned res (lines 280-282); it never throws.
read(res) ==
    IF res.type = "array" THEN res
    ELSE IF Truthy(Get(res, "data")) THEN Get(res, "data")
    ELSE JArr(<<>>)

\* read is applied to a 2xx body.
ApplyRead(res) ==
    /\ pure = NoPure
    /\ pure' = [fn |-> "read", arg |-> res, result |-> read(res)]
    /\ UNCHANGED <<accessToken, refreshToken, onTokenUpdate, config, calls,
                   started, recv, sent, obsEvents, writes, out>>

\* Keys a patch may carry, the two stripped ones and their look-alikes.
PatchKeys == {"_id", "id", "ID", "rol"}

\* The data argument of update: null, or an object over some of PatchKeys.
Patches ==
    {JNull} \cup
    UNION {{JObj(f) : f \in [K -> {JNum(99), JStr("x")}]} : K \in SUBSET PatchKeys}

\* The id argument of update.
Ids == {JNum(5), JStr("a")}

\* data ?? {} (line 286).
OrEmpty(data) == IF data.type \in {"null", "undefined"} THEN EmptyObj ELSE data

\* const { <dropped>, ...updates } = obj : the own properties not named.
RestWithout(obj, dropped) ==
    JObj([k \in (DOMAIN obj.fields) \ dropped |-> obj.fields[k]])

\* update that strips only _id from the patch.
updateBodyKeepsId(tableName, id, data) ==
    [tableName |-> tableName, idColumn |-> "_id", idValue |-> id,
     updates |-> RestWithout(OrEmpty(data), {"_id"})]

\* The body update hands to _makeRequest (lines 286-294).
updateBody(tableName, id, data) ==
    [tableName |-> tableName, idColumn |-> "_id", idValue |-> id,
     updates |-> RestWithout(OrEmpty(data), {"_id", "id"})]

\* update builds its body from its arguments.
ApplyUpdate(id, data) ==
    /\ pure = NoPure
    /\ pure' = [fn |-> "update", table |-> "t", id |-> id, arg |-> data,
                result |-> updateBody("t", id, data)]
    /\ UNCHANGED <<accessToken, refreshToken, onTokenUpdate, config, calls,
                   started, recv, sent, obsEvents, writes, out>>

MaxUrlLen == 3

\* A base URL, character by character: a host letter, or a slash.
Urls == UNION {[1..n -> {"h", "/"}] : n \in 0..MaxUrlLen}

\* url.replace(/\/+$/, '') (line 67): every trailing slash goes.
RECURSIVE TrimTrailingSlashes(_)
TrimTrailingSlashes(url) ==
    IF Len(url) > 0 /\ url[Len(url)] = "/"
    THEN TrimTrailingSlashes(SubSeq(url, 1, Len(url) - 1))
    ELSE url

\* The default pathBuilder (lines 59-62).
DefaultPathBuilder(kind, endpoint, codeUrl) ==
    IF kind = "auth"
    THEN "/auth/" \o codeUrl \o "/" \o endpoint
    ELSE "/database/" \o codeUrl \o "/" \o endpoint

\* A pathBuilder a caller supplies.
CustomPathBuilder(kind, endpoint, codeUrl) == "/v2/" \o endpoint

\* The pathBuilder property of the config object handed to the constructor:
\* not an own property, an own property holding undefined, or a function.
PathBuilderProps == {"absent", "undefined", "custom"}

\* The configs handed to the constructor.
UserConfigs ==
    [baseURL : Urls, codeUrl : {"X", "a/b"}, pathBuilder : PathBuilderProps]

\* { timeoutMs, pathBuilder: <default>, ...config } (lines 57-64): an own
\* property of config replaces the default, whatever its value.
EffectiveConfig(config_) ==
    [baseURL |-> config_.baseURL, codeUrl |-> config_.codeUrl,
     pathBuilder |-> IF config_.pathBuilder = "absent" THEN "default"
                     ELSE config_.pathBuilder]

\* The baseURL given to the transport (line 67).
HttpBaseURL(config_) == TrimTrailingSlashes(EffectiveConfig(config_).baseURL)

\* this.config.pathBuilder!(kind, endpoint, this.config.codeUrl) (line 128):
\* calling undefined throws a TypeError.
buildPathOf(eff, kind, endpoint) ==
    CASE eff.pathBuilder = "default" ->
             [ok |-> TRUE, path |-> DefaultPathBuilder(kind, endpoint, eff.codeUrl)]
      [] eff.pathBuilder = "custom" ->
             [ok |-> TRUE, path |-> CustomPathBuilder(kind, endpoint, eff.codeUrl)]
      [] OTHER -> [ok |-> FALSE, path |-> "TypeError"]

\* A client is constructed from config_ and builds the path of a request.
ApplyConstruct(config_, kind, endpoint) ==
    /\ pure = NoPure
    /\ pure' = [fn |-> "construct", arg |-> config_, kind |-> kind,
                endpoint |-> endpoint, baseURL |-> HttpBaseURL(config_),
                result |-> buildPathOf(EffectiveConfig(config_), kind, endpoint)]
    /\ UNCHANGED <<accessToken, refreshToken, onTokenUpdate, config, calls,
                   started, recv, sent, obsEvents, writes, out>>

NextPure ==
    \/ \E res \in JsonResponses : ApplyCreate(res)
    \/ \E res \in JsonResponses : ApplyRead(res)
    \/ \E id \in Ids, data \in Patches : ApplyUpdate(id, data)
    \/ \E config_ \in UserConfigs, kind \in {"auth", "database"},
          endpoint \in {"login", "read"} : ApplyConstruct(config_, kind, endpoint)

SpecPure == Init /\ [][NextPure]_vars

-----------------------------------------------------------------------------
(* Vocabulary of the properties                                             *)

\* The error kinds of the taxonomy, read off the rejection a caller receives.
Kind(e) ==
    IF e.type # "RobleApiException" THEN "RawTransportError"
    ELSE IF e.wrapped THEN "AuthRefreshFailed"
    ELSE IF e.text = NoSessionMsg THEN "NoActiveSession"
    ELSE IF e.text = NoRefreshMsg THEN "NoRefreshToken"
    ELSE IF e.text = InvalidRefreshMsg THEN "InvalidRefreshResponse"
    ELSE "ApiRequestFailed"

\* The message a failing response stands for: its message field, else its
\* error field, else the status.
DerivedMessage(res) ==
    CASE res.body.isObj /\ res.body.message # Null -> res.body.message
      [] res.body.isObj /\ res.body.message = Null /\ res.body.error # Null ->
            res.body.error
      [] OTHER -> IF res.status = 401 THEN "HTTP 401"
                  ELSE IF res.status = 500 THEN "HTTP 500"
                  ELSE IF res.status = 300 THEN "HTTP 300"
                  ELSE "HTTP ?"

\* The last step settled a data call whose first response was a 401
\* received while a refresh token was stored.
SettledAfter401 == out.op \in DataOps /\ out.trig

\* The last step consumed the response to a request of the given phase.
Received(phase) == recv.phase = phase

HasAuthorization(headers) == "Authorization" \in DOMAIN headers

\* The Authorization value the configured headers of a request's kind bring.
ConfiguredHeaders(request) ==
    IF request.path[1] = "auth" THEN config.authHeaders ELSE config.dataHeaders

-----------------------------------------------------------------------------
(* C1 *)

\* C1 as stated: every data call whose first response is a 401 while a
\* refresh token is stored has sent exactly one refresh request and exactly
\* one retry by the time it settles.
C1_ExactlyOneRefreshAndOneRetry ==
    SettledAfter401 => out.nRefresh = 1 /\ out.nRetry = 1

\* C1 amended: such a call sends exactly one refresh request, and exactly
\* one retry when that refresh succeeded and none when it failed; no call
\* ever has a second refresh or a second retry behind it.
C1_OneRefreshAndRetryOnlyAfterIt ==
    /\ \A c \in Calls : calls[c].nRefresh <= 1 /\ calls[c].nRetry <= 1
    /\ \A c \in Calls : calls[c].pc = "awaitRefresh" =>
            calls[c].nRefresh = 1 /\ calls[c].nRetry = 0
    /\ SettledAfter401 =>
            /\ out.nRefresh = 1
            /\ out.nRetry = IF out.refreshOk THEN 1 ELSE 0

\* A 401 call settles with a failed retry behind one refresh and one retry.
C1_Witness ==
    /\ SettledAfter401 /\ out.refreshOk /\ ~out.ok
    /\ Received("retry") /\ recv.res.status = 401
    /\ out.nRefresh = 1 /\ out.nRetry = 1

-----------------------------------------------------------------------------
(* C2 *)

\* C2: a refresh request is sent only in answer to a 401 on a non-auth
\* request while a refresh token is stored; a 401 on an auth request (the
\* internal refresh call included) or on a data call without a stored
\* refresh token sends nothing and fails at once with the message derived
\* from that response.
C2_RefreshOnlyOn401DataWithToken ==
    /\ sent.phase = "refresh" =>
            /\ Received("orig") /\ recv.call = sent.call
            /\ ~recv.res.net /\ recv.res.status = 401
            /\ recv.op \notin AuthOps
            /\ refreshToken \in Tokens
    /\ ( /\ (Received("orig") \/ Received("refresh"))
         /\ ~recv.res.net /\ recv.res.status = 401
         /\ (Received("refresh") \/ recv.op \in AuthOps \/ refreshToken = Null) )
       => /\ sent = NoSend
          /\ out.call = recv.call /\ ~out.ok
          /\ out.exc.type = "RobleApiException"
          /\ out.exc.text = DerivedMessage(recv.res)
          /\ Received("orig") => ~out.exc.wrapped

\* login is answered 401 while a refresh token is stored, and nothing is sent.
C2_Witness ==
    /\ Received("orig") /\ recv.op = "login" /\ recv.res.status = 401
    /\ refreshToken \in Tokens
    /\ sent = NoSend /\ ~out.ok

-----------------------------------------------------------------------------
(* C3 *)

\* C3: whenever no refresh is in progress, the access token and the
\* refresh token are both present or both absent.
C3_TokensPairedOutsideRefresh ==
    (\A c \in Calls : calls[c].pc # "awaitRefresh")
        => ((accessToken = Null) <=> (refreshToken = Null))

-----------------------------------------------------------------------------
(* C4 *)

\* C4: a failed refresh (non-2xx, transport failure, or 2xx without an
\* access token) writes neither token and does not invoke the observer; a
\* failed logout writes neither token.
C4_FailedOperationWritesNothing ==
    /\ (Received("refresh") /\ ~RefreshSucceeded(recv.res))
            => writes = <<>> /\ obsEvents = <<>>
    /\ (Received("orig") /\ recv.op = "logout" /\ ~Success2xx(recv.res))
            => writes = <<>> /\ obsEvents = <<>>

\* A refresh is answered 2xx without an access token while both tokens are
\* stored and an observer is assigned.
C4_Witness ==
    /\ Received("refresh") /\ Success2xx(recv.res) /\ ~RefreshSucceeded(recv.res)
    /\ accessToken \in Tokens /\ refreshToken \in Tokens
    /\ onTokenUpdate \in Observers
    /\ writes = <<>>

-----------------------------------------------------------------------------
(* C5 *)

\* C5: a 2xx login response carrying both tokens a and b leaves a and b
\* stored and the observer invoked exactly once, with a; any other login
\* response writes nothing and invokes nobody; every 2xx login response is
\* returned as it is.
C5_LoginStoresPair ==
    (Received("orig") /\ recv.op = "login") =>
        LET data == recv.res.body IN
        /\ IF Success2xx(recv.res) /\ data.isObj
              /\ data.accessToken \in Tokens /\ data.refreshToken \in Tokens
           THEN /\ accessToken = data.accessToken
                /\ refreshToken = data.refreshToken
                /\ Len(writes) = 2
                /\ obsEvents = IF onTokenUpdate = Null THEN <<>>
                               ELSE <<[obs |-> onTokenUpdate,
                                       val |-> data.accessToken]>>
           ELSE writes = <<>> /\ obsEvents = <<>>
        /\ Success2xx(recv.res) => out.ok /\ out.value = data

\* login receives both tokens while other tokens are stored and an
\* observer is assigned.
C5_Witness ==
    /\ Received("orig") /\ recv.op = "login" /\ Success2xx(recv.res)
    /\ recv.res.body.accessToken = "t2" /\ recv.res.body.refreshToken = "t1"
    /\ accessToken = "t2" /\ refreshToken = "t1"
    /\ Len(obsEvents) = 1 /\ obsEvents[1].val = "t2"

-----------------------------------------------------------------------------
(* C6 *)

\* C6: a 2xx answer to logout leaves both tokens absent whatever its body;
\* logout invoked with no access token stored rejects with NoActiveSession
\* and sends no request.
C6_LogoutClearsOrRejects ==
    /\ (Received("orig") /\ recv.op = "logout" /\ Success2xx(recv.res))
            => accessToken = Null /\ refreshToken = Null /\ out.ok
    /\ (started.op = "logout" /\ accessToken = Null)
            => /\ sent = NoSend
               /\ out.call = started.call /\ ~out.ok
               /\ Kind(out.exc) = "NoActiveSession"
               /\ calls[started.call].pc = "idle"

\* logout is answered 2xx with a body that itself carries tokens.
C6_Witness ==
    /\ Received("orig") /\ recv.op = "logout" /\ Success2xx(recv.res)
    /\ recv.res.body.accessToken \in Tokens
    /\ accessToken = Null /\ refreshToken = Null

-----------------------------------------------------------------------------
(* C7 *)

\* C7 as stated: every request sent carries Authorization if and only if
\* an access token is stored at send time, and then its value is "Bearer "
\* followed by that token.
C7_AuthorizationIffTokenStored ==
    sent.phase # "none" =>
        /\ HasAuthorization(sent.headers) <=> accessToken # Null
        /\ accessToken # Null =>
                sent.headers["Authorization"] = "Bearer " \o accessToken

\* C7 amended: when an access token is stored at send time, Authorization
\* is "Bearer " followed by that token, whatever the configured or extra
\* headers bring; when none is stored, Authorization is present only if
\* those headers bring one, and carries their value.
C7_BearerOverridesWhenTokenStored ==
    sent.phase # "none" =>
        IF accessToken # Null
        THEN /\ HasAuthorization(sent.headers)
             /\ sent.headers["Authorization"] = "Bearer " \o accessToken
        ELSE /\ HasAuthorization(sent.headers)
                    <=> HasAuthorization(ConfiguredHeaders(sent))
             /\ HasAuthorization(sent.headers) =>
                    sent.headers["Authorization"]
                        = ConfiguredHeaders(sent)["Authorization"]

\* A refresh request goes out with a token stored and configured auth
\* headers that bring an Authorization value of their own.
C7_Witness ==
    /\ sent.phase = "refresh"
    /\ accessToken = "t2"
    /\ HasAuthorization(config.authHeaders)
    /\ sent.headers["Authorization"] = "Bearer t2"

-----------------------------------------------------------------------------
(* C8 *)

\* C8: after a 401 with a stored refresh token, the call fails as
\* AuthRefreshFailed exactly when the refresh itself failed; after a
\* successful refresh a 2xx retry returns the retry's body and a failing
\* retry fails as ApiRequestFailed with the message of the retry's response.
C8_AuthRefreshFailedIffRefreshFailed ==
    SettledAfter401 =>
        /\ (~out.ok /\ Kind(out.exc) = "AuthRefreshFailed") <=> ~out.refreshOk
        /\ (out.refreshOk /\ Success2xx(recv.res))
                => out.ok /\ out.value = recv.res.body
        /\ (out.refreshOk /\ ~Success2xx(recv.res))
                => /\ ~out.ok /\ Kind(out.exc) = "ApiRequestFailed"
                   /\ ~recv.res.net => out.exc.text = DerivedMessage(recv.res)

-----------------------------------------------------------------------------
(* C9 *)

\* C9: every rejection a caller receives is a RobleApiException; a
\* transport failure of the original request or of the retry is an
\* ApiRequestFailed carrying the transport's message.
C9_EveryFailureIsApiException ==
    (out.op # "none" /\ ~out.ok) =>
        /\ out.exc.type = "RobleApiException"
        /\ ((Received("orig") \/ Received("retry")) /\ recv.res.net)
                => Kind(out.exc) = "ApiRequestFailed" /\ out.exc.text = NetMsg

-----------------------------------------------------------------------------
(* C10 *)

\* C10: refreshes are not coalesced.  Every data call answered 401 while a
\* refresh token is stored sends a refresh request of its own, whatever
\* other refreshes are in flight, and every successful refresh response
\* writes its access token, so the stored access token is the one of the
\* refresh response handled last.
C10_EachCallRefreshesLastWriteWins ==
    /\ ( /\ Received("orig") /\ recv.op \in DataOps
         /\ Is401WithRefreshToken(recv.res, refreshToken) )
       => /\ sent.phase = "refresh" /\ sent.call = recv.call
          /\ calls[recv.call].pc = "awaitRefresh"
    /\ (Received("refresh") /\ RefreshSucceeded(recv.res))
       => /\ accessToken = recv.res.body.accessToken
          /\ writes = <<[field |-> "accessToken",
                         val |-> recv.res.body.accessToken]>>

\* A second refresh request goes out while another call's refresh is in flight.
C10_Witness ==
    \E c1, c2 \in Calls :
        /\ c1 # c2
        /\ calls[c1].pc = "awaitRefresh" /\ calls[c2].pc = "awaitRefresh"
        /\ sent.phase = "refresh" /\ sent.call = c2

-----------------------------------------------------------------------------
(* C11 *)

\* C11: within one call the network steps are sequential.  The refresh
\* request goes out only in the step that received the original request's
\* 401; the retry goes out only in the step that received the refresh
\* response and wrote the new access token; a call never has two of its
\* requests unanswered at once.
C11_StepsOfACallAreSequential ==
    /\ sent.phase = "refresh" =>
            /\ Received("orig") /\ recv.call = sent.call
            /\ ~recv.res.net /\ recv.res.status = 401
            /\ calls[sent.call].pending = {"refresh"}
    /\ sent.phase = "retry" =>
            /\ Received("refresh") /\ recv.call = sent.call
            /\ RefreshSucceeded(recv.res)
            /\ writes = <<[field |-> "accessToken",
                           val |-> recv.res.body.accessToken]>>
            /\ accessToken = recv.res.body.accessToken
            /\ calls[sent.call].pending = {"retry"}
    /\ \A c \in Calls :
            /\ Cardinality(calls[c].pending) <= 1
            /\ calls[c].pc = "idle" <=> calls[c].pending = {}

\* A retry goes out while the other call still waits for its original answer.
C11_Witness ==
    \E c1, c2 \in Calls :
        /\ c1 # c2
        /\ sent.phase = "retry" /\ sent.call = c1
        /\ calls[c1].pending = {"retry"}
        /\ calls[c2].pending = {"orig"}

-----------------------------------------------------------------------------
(* C12 *)

\* The response has a non-empty inserted list.
HasInsertedRows(res) ==
    /\ res.type = "object" /\ "inserted" \in DOMAIN res.fields
    /\ res.fields["inserted"].type = "array"
    /\ Len(res.fields["inserted"].items) > 0

FirstInserted(res) == res.fields["inserted"].items[1]

-----------------------------------------------------------------------------
(* C13 *)

HasDataField(res) == res.type = "object" /\ "data" \in DOMAIN res.fields

\* C13: read returns the response when it is a sequence; otherwise its data
\* field when the response has one (a sequence); otherwise, with no data
\* field, an empty sequence; and the result is always a sequence.
C13_ReadAlwaysReturnsSequence ==
    pure.fn = "read" =>
        LET res == pure.arg  r == pure.result IN
        /\ res.type = "array" => r = res
        /\ HasDataField(res) /\ res.fields["data"].type = "array" =>
               r = res.fields["data"]
        /\ res.type # "array" /\ ~HasDataField(res) => r = JArr(<<>>)
        /\ r.type = "array"

-----------------------------------------------------------------------------
(* C14 *)

\* The keys of a patch; a null patch has none.
KeysOf(patch) == IF patch.type = "object" THEN DOMAIN patch.fields ELSE {}

\* C14: the body update transmits is {tableName: table, idColumn: "_id",
\* idValue: id, updates}, where updates is the patch without exactly the
\* keys _id and id, every other key keeping its value, and idValue is the
\* id argument, never an id of the patch.
C14_UpdateStripsBothIdsOnly ==
    pure.fn = "update" =>
        LET b == pure.result  patch == pure.arg IN
        /\ DOMAIN b = {"tableName", "idColumn", "idValue", "updates"}
        /\ b.tableName = pure.table /\ b.idColumn = "_id" /\ b.idValue = pure.id
        /\ b.updates.type = "object"
        /\ DOMAIN b.updates.fields = KeysOf(patch) \ {"_id", "id"}
        /\ \A k \in DOMAIN b.updates.fields : b.updates.fields[k] = patch.fields[k]

\* update got a patch that carries _id, id and two other keys, with ids
\* other than the id argument.
C14_Witness ==
    /\ pure.fn = "update" /\ pure.id = JNum(5)
    /\ KeysOf(pure.arg) = {"_id", "id", "ID", "rol"}
    /\ pure.arg.fields["_id"] = JNum(99) /\ pure.arg.fields["id"] = JNum(99)
    /\ DOMAIN pure.result.updates.fields = {"ID", "rol"}
    /\ pure.result.idValue = JNum(5)

-----------------------------------------------------------------------------
(* C15 *)

\* The caller supplied a path builder: the config holds a function.
SuppliedPathBuilder(config_) == config_.pathBuilder = "custom"

\* C15: the base URL used for requests never ends in "/"; when no
\* pathBuilder is supplied the path of a request is /auth/{codeUrl}/{endpoint}
\* for kind auth and /database/{codeUrl}/{endpoint} for kind database; a
\* supplied pathBuilder replaces both defaults.
C15_BaseUrlTrimmedAndPathsBuilt ==
    pure.fn = "construct" =>
        LET c == pure.arg  r == pure.result IN
        /\ Len(pure.baseURL) > 0 => pure.baseURL[Len(pure.baseURL)] # "/"
        /\ ~SuppliedPathBuilder(c) =>
               /\ r.ok
               /\ pure.kind = "auth" =>
                      r.path = "/auth/" \o c.codeUrl \o "/" \o pure.endpoint
               /\ pure.kind = "database" =>
                      r.path = "/database/" \o c.codeUrl \o "/" \o pure.endpoint
        /\ SuppliedPathBuilder(c) =>
               r.ok /\ r.path = CustomPathBuilder(pure.kind, pure.endpoint, c.codeUrl)

-----------------------------------------------------------------------------
(* C16 *)

\* The requests call c has sent so far: the original, refreshes, retries.
RequestsSent(c) ==
    IF calls[c].pc = "idle" THEN 0 ELSE 1 + calls[c].nRefresh + calls[c].nRetry

\* C16: when every request is eventually answered, every operation that
\* started settles, having sent at most three requests (the original, one
\* refresh, one retry); a refresh request answered 401 sends nothing more
\* and fails the call, so no refresh follows a refresh.
C16_TerminatesWithinThreeRequests ==
    /\ [](\A c \in Calls :
            RequestsSent(c) <= 3 /\ calls[c].nRefresh <= 1 /\ calls[c].nRetry <= 1)
    /\ [](Received("refresh") /\ ~recv.res.net /\ recv.res.status = 401 =>
            /\ sent = NoSend
            /\ out.call = recv.call /\ ~out.ok
            /\ calls[recv.call].pc = "idle")
    /\ \A c \in Calls : (calls[c].pc # "idle") ~> (calls[c].pc = "idle")

\* A refresh request was answered 401 and the call failed after two requests.
C16_Witness ==
    /\ Received("refresh") /\ recv.res.status = 401
    /\ out.call = recv.call /\ ~out.ok
    /\ out.nRefresh = 1 /\ out.nRetry = 0
    /\ sent = NoSend

-----------------------------------------------------------------------------
(* C17 *)

\* The fields written by the last step.
WrittenFields == {writes[i].field : i \in 1..Len(writes)}

\* C17: tokens are written only by setTokens, clearTokens, a login success,
\* a logout success and the internal refresh; register and
\* refreshTokenManual write neither token whatever their response; a data
\* operation writes nothing unless its refresh succeeded, and then the
\* access token only; the internal refresh never writes the refresh token,
\* even when its response carries one.
C17_OnlyOwnersWriteTokens ==
    /\ writes # <<>> =>
           \/ started.op \in {"setTokens", "clearTokens"}
           \/ Received("orig") /\ recv.op \in {"login", "logout"} /\ Success2xx(recv.res)
           \/ Received("refresh") /\ RefreshSucceeded(recv.res)
    /\ recv.op \in {"register", "refreshTokenManual"} => writes = <<>>
    /\ started.op \in Ops => writes = <<>>
    /\ recv.op \in DataOps =>
           IF Received("refresh") /\ RefreshSucceeded(recv.res)
           THEN writes = <<[field |-> "accessToken", val |-> recv.res.body.accessToken]>>
           ELSE writes = <<>>
    /\ Received("refresh") => "refreshToken" \notin WrittenFields

\* A refresh succeeds with a response that carries a refresh token other
\* than the stored one, and the stored one stays.
C17_Witness ==
    /\ Received("refresh") /\ RefreshSucceeded(recv.res)
    /\ recv.res.body.refreshToken = "t1" /\ refreshToken = "t2"
    /\ WrittenFields = {"accessToken"}

-----------------------------------------------------------------------------
(* C18 *)

\* The values written to the access token by the last step, in order.
AccessTokenWrites ==
    LET IsAccess(w) == w.field = "accessToken"
        ws == SelectSeq(writes, IsAccess)
    IN [i \in 1..Len(ws) |-> ws[i].val]

\* C18: the assigned observer is invoked exactly once per access-token
\* write, with the value written (absent included, an unchanged value
\* included), and by nothing else: no invocation in a step without an
\* access-token write, so none by a failed operation; only the observer
\* assigned at the time of the write is invoked.
C18_ObserverOncePerAccessWrite ==
    /\ onTokenUpdate # Null =>
           obsEvents = [i \in 1..Len(AccessTokenWrites) |->
                           [obs |-> onTokenUpdate, val |-> AccessTokenWrites[i]]]
    /\ onTokenUpdate = Null => obsEvents = <<>>
    /\ Len(AccessTokenWrites) <= 1
    /\ (out.call # 0 /\ ~out.ok) => obsEvents = <<>>

\* With the second observer assigned, a logout success writes absent and
\* that observer alone is told.
C18_Witness ==
    /\ onTokenUpdate = "o2"
    /\ Received("orig") /\ recv.op = "logout" /\ Success2xx(recv.res)
    /\ AccessTokenWrites = <<Null>>
    /\ obsEvents = <<[obs |-> "o2", val |-> Null]>>

-----------------------------------------------------------------------------
(* C19 *)

\* C19: the retry that follows a successful refresh carries Authorization
\* "Bearer " plus the access token that refresh returned, which is the
\* token stored when the retry is sent, never the one just rejected.
C19_RetryCarriesRefreshedToken ==
    sent.phase = "retry" =>
        /\ Received("refresh") /\ RefreshSucceeded(recv.res)
        /\ sent.call = recv.call
        /\ HasAuthorization(sent.headers)
        /\ sent.headers["Authorization"] = "Bearer " \o recv.res.body.accessToken
        /\ accessToken = recv.res.body.accessToken

\* A retry leaves with the token t2 the refresh returned.
C19_Witness ==
    /\ sent.phase = "retry" /\ Received("refresh")
    /\ recv.res.body.accessToken = "t2"
    /\ sent.headers["Authorization"] = "Bearer t2"

-----------------------------------------------------------------------------
(* C20 *)

\* C20: a refresh writes its access token only into the session it was
\* started under: every refresh request presents the stored refresh token,
\* and whenever a successful refresh stores an access token while a refresh
\* token is stored, that refresh token is still the one the request
\* presented, so the stored pair belongs to one session.
C20_RefreshWritesIntoItsOwnSession ==
    /\ sent.phase = "refresh" =>
           sent.bodyTok = refreshToken /\ sent.bodyTok = ExpiringSession
    /\ (Received("refresh") /\ RefreshSucceeded(recv.res) /\ refreshToken # Null) =>
           /\ accessToken = recv.res.body.accessToken
           /\ refreshToken = ExpiringSession

====
